---- MODULE Spec2Model ----
(***************************************************************************)
(* Contextual / heritage lineage engine of the catalog API.                *)
(*                                                                         *)
(* State: the two tables of app/models/contextual_chain.py                 *)
(*   contextual_chain_nodes  (node_id unique)                              *)
(*   heritage_lineage        (unique index on ancestor, descendant)        *)
(* Operations: ContextualLatheringEngine.register_node and the helpers it  *)
(* calls, app/services/contextual_service.py.                              *)
(***************************************************************************)
EXTENDS Integers, Sequences, FiniteSets, TLC

\* ------------------------------------------------------------------ bounds
MaxNodes == 3
MaxParents == 2
MaxSessions == 2

\* node ids that callers register
NodeIds == 1..MaxNodes
\* ids that callers name as parents: 0 is an id no call registers (such as the
\* "cost-code-<id>" parents that contextualize_bid sends)
ParentIds == 0..MaxNodes

\* what a call stores verbatim: node_type and node_metadata
Payloads == {[node_type |-> "cost_code", node_metadata |-> "m1"],
             [node_type |-> "bid", node_metadata |-> "m2"]}

RECURSIVE SeqsUpTo(_, _)
SeqsUpTo(S, k) ==
    IF k = 0 THEN {<<>>}
    ELSE LET shorter == SeqsUpTo(S, k - 1)
         IN  shorter \cup {Append(s, x) : s \in {t \in shorter : Len(t) = k - 1}, x \in S}

\* the parent_nodes lists a caller may send: ordered, repeats allowed
ParentLists == SeqsUpTo(ParentIds, MaxParents)

\* ------------------------------------------------------------ configuration
\* settings.ENABLE_CIRCULAR_DEPENDENCY_CHECK and settings.MAX_CHAIN_DEPTH
ENABLE_CIRCULAR_DEPENDENCY_CHECK == TRUE
MAX_CHAIN_DEPTH == 2

\* -------------------------------------------------------------------- state
VARIABLES
    nodes,      \* contextual_chain_nodes: node_id -> row
    lineage,    \* heritage_lineage: set of rows
    last,       \* the last call: [op, node_id, result, self_ref]
    sess        \* the register_node call each database session is running

vars == <<nodes, lineage, last, sess>>

Range(s) == {s[i] : i \in DOMAIN s}

Max(S) == CHOOSE m \in S : \A x \in S : x <= m

\* ContextualChainNode row (keyed by its unique node_id)
ContextualChainNode(payload, parent_nodes, depth) ==
    [node_type |-> payload.node_type, parent_nodes |-> parent_nodes,
     node_metadata |-> payload.node_metadata, lathering_depth |-> depth]

\* HeritageLineage row
HeritageLineage(a, d, k) ==
    [ancestor_node_id |-> a, descendant_node_id |-> d, depth_distance |-> k]

\* db.query(ContextualChainNode).filter(node_id == n).first() is not None
Exists(n) == n \in DOMAIN nodes

\* ------------------------------------------------------------------ helpers

\* variant: the self-reference test is left out
would_create_cycle_no_self(node_id, parent_nodes) ==
    \E i \in DOMAIN parent_nodes :
        \E r \in lineage : /\ r.ancestor_node_id = node_id
                           /\ r.descendant_node_id = parent_nodes[i]

\* _would_create_cycle(node_id, parent_nodes)
would_create_cycle(node_id, parent_nodes) ==
    \/ node_id \in Range(parent_nodes)
    \/ \E i \in DOMAIN parent_nodes :
          \E r \in lineage : /\ r.ancestor_node_id = node_id
                             /\ r.descendant_node_id = parent_nodes[i]

\* _calculate_depth(parent_nodes): only the parents found in the node table count
calculate_depth(parent_nodes) ==
    IF parent_nodes = <<>> THEN 0
    ELSE LET parent_depths ==
                 {nodes[p].lathering_depth : p \in Range(parent_nodes) \cap DOMAIN nodes}
         IN  IF parent_depths = {} THEN 1 ELSE Max(parent_depths) + 1

\* variant: only the first declared parent gets its direct row
DirectEntries_first_parent_only(node_id, parent_nodes) ==
    {<<"direct", i, HeritageLineage(parent_nodes[i], node_id, 1)>> :
        i \in DOMAIN parent_nodes \cap {1}}

\* variant: ancestor and descendant are swapped in the direct rows
DirectEntries_swapped(node_id, parent_nodes) ==
    {<<"direct", i, HeritageLineage(node_id, parent_nodes[i], 1)>> : i \in DOMAIN parent_nodes}

\* _create_heritage_entries, first loop: one row per position of parent_nodes.
\* Each queued INSERT is tagged with the loop and position that produced it,
\* since two queued rows may be equal.
DirectEntries(node_id, parent_nodes) ==
    {<<"direct", i, HeritageLineage(parent_nodes[i], node_id, 1)>> : i \in DOMAIN parent_nodes}

\* variant: the inherited rows keep the parent's distance
InheritedEntries_same_distance(node_id, parent_nodes) ==
    UNION { {<<"inherit", i, HeritageLineage(a.ancestor_node_id, node_id, a.depth_distance)>> :
                a \in {r \in lineage : r.descendant_node_id = parent_nodes[i]}}
            : i \in DOMAIN parent_nodes }

\* _create_heritage_entries, second loop: the rows of each parent, one level deeper
InheritedEntries(node_id, parent_nodes) ==
    UNION { {<<"inherit", i, HeritageLineage(a.ancestor_node_id, node_id, a.depth_distance + 1)>> :
                a \in {r \in lineage : r.descendant_node_id = parent_nodes[i]}}
            : i \in DOMAIN parent_nodes }

create_heritage_entries(node_id, parent_nodes) ==
    DirectEntries(node_id, parent_nodes) \cup InheritedEntries(node_id, parent_nodes)

SamePair(r1, r2) ==
    /\ r1.ancestor_node_id = r2.ancestor_node_id
    /\ r1.descendant_node_id = r2.descendant_node_id

\* node_id = Column(..., unique=True): the flush of the node row fails when the
\* id is stored already
node_id_unique_violated(node_id) == Exists(node_id)

\* variant: the index is not unique
idx_ancestor_descendant_not_unique(entries) == FALSE

\* Index('idx_ancestor_descendant', ..., unique=True): the flush of the queued
\* rows fails when two of them, or one of them and a stored row, share a pair
idx_ancestor_descendant_violated(entries) ==
    \/ \E e1 \in entries, e2 \in entries : e1 # e2 /\ SamePair(e1[3], e2[3])
    \/ \E e \in entries, r \in lineage : SamePair(e[3], r)

\* ------------------------------------------------------------ register_node
\* variant: a declared parent without a stored node is refused
register_outcome_parent_required(node_id, parent_nodes) ==
    IF Exists(node_id) THEN "DuplicateNodeError"
    ELSE IF ENABLE_CIRCULAR_DEPENDENCY_CHECK /\ would_create_cycle(node_id, parent_nodes)
         THEN "CircularDependencyError"
    ELSE IF \E p \in Range(parent_nodes) : ~Exists(p)
         THEN "ParentNotFoundError"
    ELSE IF calculate_depth(parent_nodes) > MAX_CHAIN_DEPTH
         THEN "DepthLimitExceededError"
    ELSE IF node_id_unique_violated(node_id)
         THEN "IntegrityError"
    ELSE IF idx_ancestor_descendant_violated(create_heritage_entries(node_id, parent_nodes))
         THEN "IntegrityError"
    ELSE "ok"

\* variant: the existence query before the insert is left out
register_outcome_no_duplicate_check(node_id, parent_nodes) ==
    IF ENABLE_CIRCULAR_DEPENDENCY_CHECK /\ would_create_cycle(node_id, parent_nodes)
         THEN "CircularDependencyError"
    ELSE IF calculate_depth(parent_nodes) > MAX_CHAIN_DEPTH
         THEN "DepthLimitExceededError"
    ELSE IF node_id_unique_violated(node_id)
         THEN "IntegrityError"
    ELSE IF idx_ancestor_descendant_violated(create_heritage_entries(node_id, parent_nodes))
         THEN "IntegrityError"
    ELSE "ok"

\* variant: the depth comparison is >= instead of >
register_outcome_depth_off_by_one(node_id, parent_nodes) ==
    IF Exists(node_id) THEN "DuplicateNodeError"
    ELSE IF ENABLE_CIRCULAR_DEPENDENCY_CHECK /\ would_create_cycle(node_id, parent_nodes)
         THEN "CircularDependencyError"
    ELSE IF calculate_depth(parent_nodes) >= MAX_CHAIN_DEPTH
         THEN "DepthLimitExceededError"
    ELSE IF node_id_unique_violated(node_id)
         THEN "IntegrityError"
    ELSE IF idx_ancestor_descendant_violated(create_heritage_entries(node_id, parent_nodes))
         THEN "IntegrityError"
    ELSE "ok"

\* variant: the cycle check runs before the existence query
register_outcome_cycle_first(node_id, parent_nodes) ==
    IF ENABLE_CIRCULAR_DEPENDENCY_CHECK /\ would_create_cycle(node_id, parent_nodes)
         THEN "CircularDependencyError"
    ELSE IF Exists(node_id) THEN "DuplicateNodeError"
    ELSE IF calculate_depth(parent_nodes) > MAX_CHAIN_DEPTH
         THEN "DepthLimitExceededError"
    ELSE IF node_id_unique_violated(node_id)
         THEN "IntegrityError"
    ELSE IF idx_ancestor_descendant_violated(create_heritage_entries(node_id, parent_nodes))
         THEN "IntegrityError"
    ELSE "ok"

\* variant: an existing node id is updated in place (session.merge)
register_outcome_upsert(node_id, parent_nodes) ==
    IF ENABLE_CIRCULAR_DEPENDENCY_CHECK /\ would_create_cycle(node_id, parent_nodes)
         THEN "CircularDependencyError"
    ELSE IF calculate_depth(parent_nodes) > MAX_CHAIN_DEPTH
         THEN "DepthLimitExceededError"
    ELSE IF idx_ancestor_descendant_violated(create_heritage_entries(node_id, parent_nodes))
         THEN "IntegrityError"
    ELSE "ok"

\* The outcome of register_node, in the order of its checks.  The ValueErrors
\* are named after the failure they report; IntegrityError is the storage
\* failure a unique constraint raises at flush/commit, which rolls the whole
\* transaction back.
register_outcome(node_id, parent_nodes) ==
    IF Exists(node_id) THEN "DuplicateNodeError"
    ELSE IF ENABLE_CIRCULAR_DEPENDENCY_CHECK /\ would_create_cycle(node_id, parent_nodes)
         THEN "CircularDependencyError"
    ELSE IF calculate_depth(parent_nodes) > MAX_CHAIN_DEPTH
         THEN "DepthLimitExceededError"
    ELSE IF node_id_unique_violated(node_id)
         THEN "IntegrityError"
    ELSE IF idx_ancestor_descendant_violated(create_heritage_entries(node_id, parent_nodes))
         THEN "IntegrityError"
    ELSE "ok"

\* variant: the node row is committed before the depth limit is checked
register_node_commits_early(node_id, payload, parent_nodes) ==
    LET outcome == register_outcome(node_id, parent_nodes)
        depth   == calculate_depth(parent_nodes)
    IN  /\ last' = [op |-> "register", node_id |-> node_id, result |-> outcome,
                    self_ref |-> node_id \in Range(parent_nodes)]
        /\ IF outcome \in {"ok", "DepthLimitExceededError"}
           THEN nodes' = [n \in DOMAIN nodes \cup {node_id} |->
                             IF n = node_id
                             THEN ContextualChainNode(payload, parent_nodes, depth)
                             ELSE nodes[n]]
           ELSE UNCHANGED nodes
        /\ IF outcome = "ok"
           THEN lineage' = lineage \cup
                       {e[3] : e \in create_heritage_entries(node_id, parent_nodes)}
           ELSE UNCHANGED lineage

register_node(node_id, payload, parent_nodes) ==
    LET outcome == register_outcome(node_id, parent_nodes)
        depth   == calculate_depth(parent_nodes)
    IN  /\ last' = [op |-> "register", node_id |-> node_id, result |-> outcome,
                    self_ref |-> node_id \in Range(parent_nodes)]
        /\ IF outcome = "ok"
           THEN /\ nodes' = [n \in DOMAIN nodes \cup {node_id} |->
                               IF n = node_id
                               THEN ContextualChainNode(payload, parent_nodes, depth)
                               ELSE nodes[n]]
                /\ lineage' = lineage \cup
                       {e[3] : e \in create_heritage_entries(node_id, parent_nodes)}
           ELSE UNCHANGED <<nodes, lineage>>

Register ==
    \E n \in NodeIds, payload \in Payloads, ps \in ParentLists : register_node(n, payload, ps)

\* ------------------------------------------------------- concurrent sessions
\* Each request runs register_node in a session of its own (get_db).  Queries
\* read the committed tables; the rows a session adds stay private to it
\* until db.commit(), and a failed flush or commit rolls its transaction back.
Sessions == 1..MaxSessions

\* the payload each session sends
SessionPayload(s) ==
    IF s = 1 THEN [node_type |-> "cost_code", node_metadata |-> "m1"]
    ELSE [node_type |-> "bid", node_metadata |-> "m2"]

\* the parent lists sent by concurrent callers
SessionParentLists == SeqsUpTo(NodeIds, 1)

NoCall ==
    [pc |-> "done", node_id |-> 0, parent_nodes |-> <<>>, found |-> {}, depth |-> 0,
     entries |-> {}, result |-> "none", raced |-> FALSE]

\* the record of a call that passed the checks of lines 53-75 and has returned
Ended(s, result) ==
    [NoCall EXCEPT !.node_id = sess[s].node_id, !.result = result,
                   !.found = IF result = "ok" THEN sess[s].found ELSE {},
                   !.raced = sess[s].raced /\ result = "ok"]

InFlight(s) == sess[s].pc \in {"checked", "flushed", "queued"}

\* a session that is in flight while another one commits has raced with it
Raced(s, committer) ==
    [t \in Sessions |-> IF t # committer /\ InFlight(t)
                        THEN [s[t] EXCEPT !.raced = TRUE] ELSE s[t]]

\* register_node lines 53-75: the existence query, the cycle check, the depth
\* computation and the depth limit, all on the committed tables
begin_register(s, node_id, parent_nodes) ==
    LET depth == calculate_depth(parent_nodes)
        call  == [NoCall EXCEPT !.node_id = node_id, !.parent_nodes = parent_nodes,
                                !.found = Range(parent_nodes) \cap DOMAIN nodes,
                                !.depth = depth]
        error == IF Exists(node_id) THEN "DuplicateNodeError"
                 ELSE IF ENABLE_CIRCULAR_DEPENDENCY_CHECK
                         /\ would_create_cycle(node_id, parent_nodes)
                      THEN "CircularDependencyError"
                 ELSE IF depth > MAX_CHAIN_DEPTH THEN "DepthLimitExceededError"
                 ELSE "none"
    IN  /\ sess[s].pc = "done"
        /\ sess' = [sess EXCEPT ![s] =
                       IF error = "none" THEN [call EXCEPT !.pc = "checked"]
                       ELSE [NoCall EXCEPT !.result = error]]
        /\ UNCHANGED <<nodes, lineage, last>>

\* variant: the flush makes the node row visible to the other sessions
flush_node_commits(s) ==
    /\ sess[s].pc = "checked"
    /\ ~\E t \in Sessions \ {s} :
           sess[t].pc \in {"flushed", "queued"} /\ sess[t].node_id = sess[s].node_id
    /\ IF node_id_unique_violated(sess[s].node_id)
       THEN /\ sess' = [sess EXCEPT ![s] = Ended(s, "IntegrityError")]
            /\ UNCHANGED nodes
       ELSE /\ sess' = [sess EXCEPT ![s].pc = "flushed"]
            /\ nodes' = [n \in DOMAIN nodes \cup {sess[s].node_id} |->
                            IF n = sess[s].node_id
                            THEN ContextualChainNode(SessionPayload(s),
                                     sess[s].parent_nodes, sess[s].depth)
                            ELSE nodes[n]]
    /\ UNCHANGED <<lineage, last>>

\* variant: the INSERT fails whenever another session holds uncommitted rows
flush_node_table_lock(s) ==
    /\ sess[s].pc = "checked"
    /\ IF node_id_unique_violated(sess[s].node_id)
       THEN sess' = [sess EXCEPT ![s] = Ended(s, "IntegrityError")]
       ELSE IF \E t \in Sessions \ {s} : sess[t].pc \in {"flushed", "queued"}
       THEN sess' = [sess EXCEPT ![s] = Ended(s, "OperationalError")]
       ELSE sess' = [sess EXCEPT ![s].pc = "flushed"]
    /\ UNCHANGED <<nodes, lineage, last>>

\* register_node lines 86-87: db.add(db_node); db.flush().  The INSERT waits
\* while another session holds an uncommitted row with the same node_id and
\* fails on the unique node_id once such a row is committed; the exception is
\* not caught, so the call ends with it.
flush_node(s) ==
    /\ sess[s].pc = "checked"
    /\ ~\E t \in Sessions \ {s} :
           sess[t].pc \in {"flushed", "queued"} /\ sess[t].node_id = sess[s].node_id
    /\ IF node_id_unique_violated(sess[s].node_id)
       THEN sess' = [sess EXCEPT ![s] = Ended(s, "IntegrityError")]
       ELSE sess' = [sess EXCEPT ![s].pc = "flushed"]
    /\ UNCHANGED <<nodes, lineage, last>>

\* register_node line 90: _create_heritage_entries queues its rows from the
\* committed rows of each parent
queue_heritage_entries(s) ==
    /\ sess[s].pc = "flushed"
    /\ sess' = [sess EXCEPT ![s].pc = "queued",
                            ![s].entries = create_heritage_entries(sess[s].node_id,
                                                                   sess[s].parent_nodes)]
    /\ UNCHANGED <<nodes, lineage, last>>

\* register_node line 92: db.commit() flushes the queued rows and publishes the
\* node row and the lineage rows together, or fails on the unique index and
\* rolls everything back
commit_register(s) ==
    /\ sess[s].pc = "queued"
    /\ IF idx_ancestor_descendant_violated(sess[s].entries)
       THEN /\ sess' = [sess EXCEPT ![s] = Ended(s, "IntegrityError")]
            /\ UNCHANGED <<nodes, lineage>>
       ELSE /\ sess' = Raced([sess EXCEPT ![s] = Ended(s, "ok")], s)
            /\ nodes' = [n \in DOMAIN nodes \cup {sess[s].node_id} |->
                            IF n = sess[s].node_id
                            THEN ContextualChainNode(SessionPayload(s),
                                     sess[s].parent_nodes, sess[s].depth)
                            ELSE nodes[n]]
            /\ lineage' = lineage \cup {e[3] : e \in sess[s].entries}
    /\ UNCHANGED last

\* get_heritage_lineage lines 132-137, run by a reader in a session of its own:
\* the node query
lineage_node_query(node_id) ==
    /\ last' = [op |-> "lineage_node_query", node_id |-> node_id,
                result |-> Exists(node_id), self_ref |-> FALSE]
    /\ UNCHANGED <<nodes, lineage, sess>>

\* get_heritage_lineage lines 140-142: the rows query, after the node was found
lineage_rows_query ==
    /\ last.op = "lineage_node_query"
    /\ last.result = TRUE
    /\ last' = [op |-> "lineage_rows_query", node_id |-> last.node_id,
                result |-> {r \in lineage : r.descendant_node_id = last.node_id},
                self_ref |-> FALSE]
    /\ UNCHANGED <<nodes, lineage, sess>>

BeginRegister ==
    \E s \in Sessions, n \in NodeIds, ps \in SessionParentLists : begin_register(s, n, ps)
FlushNode == \E s \in Sessions : flush_node(s)
QueueHeritageEntries == \E s \in Sessions : queue_heritage_entries(s)
CommitRegister == \E s \in Sessions : commit_register(s)
LineageNodeQuery == \E n \in NodeIds : lineage_node_query(n)
LineageRowsQuery == lineage_rows_query

\* ------------------------------------------------------------ read queries
\* variant: the query has no order_by
unordered(rows) ==
    {seq \in [1..Cardinality(rows) -> rows] :
        \A i, j \in DOMAIN seq : i # j => seq[i] # seq[j]}

\* .order_by(HeritageLineage.depth_distance): the rows in a non-decreasing
\* order of distance; the order of rows at one distance is the database's
\* choice
order_by_depth_distance(rows) ==
    {seq \in [1..Cardinality(rows) -> rows] :
        /\ \A i, j \in DOMAIN seq : i # j => seq[i] # seq[j]
        /\ \A i, j \in DOMAIN seq : i < j => seq[i].depth_distance <= seq[j].depth_distance}

\* .all(): the rows as the database returns them.  The query is served from
\* idx_descendant_depth, so for given table contents the rows at one distance
\* come back in one fixed order, which the code does not choose.
all_rows(rows) == CHOOSE seq \in order_by_depth_distance(rows) : TRUE

\* get_heritage_lineage (lines 119-144): the result of the call
get_heritage_lineage(node_id) ==
    IF ~Exists(node_id) THEN {"ValueError"}
    ELSE LET seq == all_rows({r \in lineage : r.descendant_node_id = node_id})
         IN  {[i \in DOMAIN seq |-> seq[i].ancestor_node_id]}

\* variant: total_descendants counts the direct children only
analyze_chain_metrics_direct_children(node_id, lineage_list) ==
    LET node              == nodes[node_id]
        descendants_count == Cardinality({r \in lineage : r.ancestor_node_id = node_id
                                                           /\ r.depth_distance = 1})
        ancestor_nodes    == Range(lineage_list) \cap DOMAIN nodes
        types             == {nodes[a].node_type : a \in ancestor_nodes}
    IN  [node_id |-> node_id,
         node_type |-> node.node_type,
         lathering_depth |-> node.lathering_depth,
         total_ancestors |-> Len(lineage_list),
         total_descendants |-> descendants_count,
         node_type_distribution |->
             [t \in types |-> Cardinality({a \in ancestor_nodes : nodes[a].node_type = t})],
         parent_nodes |-> node.parent_nodes,
         is_root |-> Len(node.parent_nodes) = 0,
         is_leaf |-> descendants_count = 0]

\* variant: the histogram records each node type once
analyze_chain_metrics_types_once(node_id, lineage_list) ==
    LET node              == nodes[node_id]
        descendants_count == Cardinality({r \in lineage : r.ancestor_node_id = node_id})
        ancestor_nodes    == Range(lineage_list) \cap DOMAIN nodes
        types             == {nodes[a].node_type : a \in ancestor_nodes}
    IN  [node_id |-> node_id,
         node_type |-> node.node_type,
         lathering_depth |-> node.lathering_depth,
         total_ancestors |-> Len(lineage_list),
         total_descendants |-> descendants_count,
         node_type_distribution |-> [t \in types |-> 1],
         parent_nodes |-> node.parent_nodes,
         is_root |-> Len(node.parent_nodes) = 0,
         is_leaf |-> descendants_count = 0]

\* analyze_chain_metrics (lines 146-197), given the lineage list it fetched
analyze_chain_metrics(node_id, lineage_list) ==
    LET node              == nodes[node_id]
        descendants_count == Cardinality({r \in lineage : r.ancestor_node_id = node_id})
        ancestor_nodes    == Range(lineage_list) \cap DOMAIN nodes
        types             == {nodes[a].node_type : a \in ancestor_nodes}
    IN  [node_id |-> node_id,
         node_type |-> node.node_type,
         lathering_depth |-> node.lathering_depth,
         total_ancestors |-> Len(lineage_list),
         total_descendants |-> descendants_count,
         node_type_distribution |->
             [t \in types |-> Cardinality({a \in ancestor_nodes : nodes[a].node_type = t})],
         parent_nodes |-> node.parent_nodes,
         is_root |-> Len(node.parent_nodes) = 0,
         is_leaf |-> descendants_count = 0]

\* the deepest nesting of _build_node_tree calls the interpreter allows
RecursionLimit == MaxNodes + 2

\* variant: the visited set is not handed down to the children
RECURSIVE build_node_tree_forgetful(_, _, _)
build_node_tree_forgetful(node_id, visited, path) ==
    LET here == Append(path, node_id)
    IN  IF Len(here) > RecursionLimit THEN {[path |-> here, mark |-> "RecursionError"]}
        ELSE IF node_id \in visited THEN {[path |-> here, mark |-> "cycle_detected"]}
        ELSE IF ~Exists(node_id) THEN {[path |-> here, mark |-> "not_found"]}
        ELSE {[path |-> here, mark |-> "node"]} \cup
             UNION {build_node_tree_forgetful(r.descendant_node_id, {}, here) :
                        r \in {c \in lineage : c.ancestor_node_id = node_id
                                                /\ c.depth_distance = 1}}

\* _build_node_tree (lines 362-405).  The nested dictionary is given as the set
\* of its subtrees, each with the path of node ids from the root down to it
\* and what it is: a node, a cycle marker or a not_found marker; the fields of
\* a node are those of its stored record.  A call nested deeper than the
\* interpreter allows raises RecursionError.
RECURSIVE build_node_tree(_, _, _)
build_node_tree(node_id, visited, path) ==
    LET here == Append(path, node_id)
    IN  IF Len(here) > RecursionLimit THEN {[path |-> here, mark |-> "RecursionError"]}
        ELSE IF node_id \in visited THEN {[path |-> here, mark |-> "cycle_detected"]}
        ELSE IF ~Exists(node_id) THEN {[path |-> here, mark |-> "not_found"]}
        ELSE {[path |-> here, mark |-> "node"]} \cup
             UNION {build_node_tree(r.descendant_node_id, visited \cup {node_id}, here) :
                        r \in {c \in lineage : c.ancestor_node_id = node_id
                                                /\ c.depth_distance = 1}}

\* detect_circular_dependencies (lines 199-216)
detect_circular_dependencies(node_id) ==
    IF ~Exists(node_id) THEN FALSE
    ELSE would_create_cycle(node_id, nodes[node_id].parent_nodes)

\* get_chain_snapshot (lines 218-272): the tree, the node count, the depth and
\* the metrics
get_chain_snapshot(root_node_id, lineage_list) ==
    LET root_node        == nodes[root_node_id]
        all_descendants  == {r \in lineage : r.ancestor_node_id = root_node_id}
        descendant_ids   == {d.descendant_node_id : d \in all_descendants}
        descendant_nodes == descendant_ids \cap DOMAIN nodes
        max_depth        == IF all_descendants # {} /\ descendant_nodes # {}
                            THEN Max({nodes[n].lathering_depth : n \in descendant_nodes})
                            ELSE root_node.lathering_depth
    IN  [root_node |-> root_node_id,
         node_tree |-> build_node_tree(root_node_id, {}, <<>>),
         total_nodes |-> Cardinality(all_descendants) + 1,
         max_depth |-> max_depth,
         metrics |-> analyze_chain_metrics(root_node_id, lineage_list)]

\* variant: a read recomputes the stored depth of every node
Returned_refreshing_depth(op, node_id, result) ==
    /\ last' = [op |-> op, node_id |-> node_id, result |-> result, self_ref |-> FALSE]
    /\ nodes' = [n \in DOMAIN nodes |->
                    [nodes[n] EXCEPT !.lathering_depth = calculate_depth(nodes[n].parent_nodes)]]
    /\ UNCHANGED <<lineage, sess>>

Returned(op, node_id, result) ==
    /\ last' = [op |-> op, node_id |-> node_id, result |-> result, self_ref |-> FALSE]
    /\ UNCHANGED <<nodes, lineage, sess>>

GetHeritageLineage ==
    \E n \in NodeIds : \E result \in get_heritage_lineage(n) :
        Returned("get_heritage_lineage", n, result)

AnalyzeChainMetrics ==
    \E n \in NodeIds : \E lineage_list \in get_heritage_lineage(n) :
        Returned("analyze_chain_metrics", n,
                 IF Exists(n) THEN analyze_chain_metrics(n, lineage_list)
                 ELSE "ValueError")

GetChainSnapshot ==
    \E n \in NodeIds : \E lineage_list \in get_heritage_lineage(n) :
        Returned("get_chain_snapshot", n,
                 IF Exists(n) THEN get_chain_snapshot(n, lineage_list)
                 ELSE "ValueError")

DetectCircularDependencies ==
    \E n \in NodeIds :
        Returned("detect_circular_dependencies", n, detect_circular_dependencies(n))

\* ---------------------------------------------------------- contextualize_bid
\* The stored bids and the cost codes their line items name.  The chain node
\* of bid b is "bid-<b>" and the one of cost code c is "cost-code-<c>": the
\* two families of ids are disjoint; cost code 0 is never registered as a node.
BidIds == {1}
CostCodeIds == 0..(MaxNodes - 1)
bid_node_id(bid_id) == MaxNodes + 1 - bid_id
cost_code_node_id(cost_code_id) == cost_code_id

\* a line item that is no dict or has no "cost_code_id" key
NoCostCode == -1

LineItemLists == SeqsUpTo(CostCodeIds \cup {NoCostCode}, MaxParents)

\* contextualize_bid lines 166-172: one parent per line item with a cost code
RECURSIVE bid_parent_nodes(_)
bid_parent_nodes(line_items) ==
    IF line_items = <<>> THEN <<>>
    ELSE LET rest == bid_parent_nodes(Tail(line_items))
         IN  IF Head(line_items) = NoCostCode THEN rest
             ELSE <<cost_code_node_id(Head(line_items))>> \o rest

\* the status the routes answer with: 201 on success, 404 for a missing bid,
\* 400 for a ValueError of the engine, 500 for any other exception
http_status(outcome) ==
    CASE outcome = "ok" -> 201
      [] outcome = "BidNotFound" -> 404
      [] outcome \in {"DuplicateNodeError", "CircularDependencyError",
                      "DepthLimitExceededError"} -> 400
      [] OTHER -> 500

\* contextualize_bid (routes lines 141-195) for a bid that BidService.get_bid
\* finds or not, through ContextualLatheringService.create_node
contextualize_bid(bid_id, found, line_items) ==
    LET node_id      == bid_node_id(bid_id)
        parent_nodes == bid_parent_nodes(line_items)
        outcome      == IF found THEN register_outcome(node_id, parent_nodes)
                        ELSE "BidNotFound"
    IN  /\ last' = [op |-> "contextualize_bid", node_id |-> node_id, result |-> outcome,
                    self_ref |-> FALSE, parent_nodes |-> parent_nodes]
        /\ IF outcome = "ok"
           THEN /\ nodes' = [n \in DOMAIN nodes \cup {node_id} |->
                                IF n = node_id
                                THEN ContextualChainNode(
                                         [node_type |-> "bid", node_metadata |-> "m2"],
                                         parent_nodes, calculate_depth(parent_nodes))
                                ELSE nodes[n]]
                /\ lineage' = lineage \cup
                       {e[3] : e \in create_heritage_entries(node_id, parent_nodes)}
           ELSE UNCHANGED <<nodes, lineage>>
        /\ UNCHANGED sess

ContextualizeBid ==
    \E bid_id \in BidIds, found \in BOOLEAN, line_items \in LineItemLists :
        contextualize_bid(bid_id, found, line_items)

\* ------------------------------------------------------------ specification
Init ==
    /\ nodes = << >>
    /\ lineage = {}
    /\ last = [op |-> "none", node_id |-> 0, result |-> "none", self_ref |-> FALSE]
    /\ sess = [s \in Sessions |-> NoCall]

\* one caller at a time
Next == Register /\ UNCHANGED sess

Spec == Init /\ [][Next]_vars

\* concurrent callers and a reader
NextConcurrent ==
    \/ BeginRegister
    \/ FlushNode
    \/ QueueHeritageEntries
    \/ CommitRegister
    \/ LineageNodeQuery
    \/ LineageRowsQuery

SpecConcurrent == Init /\ [][NextConcurrent]_vars

\* one caller at a time, registering and reading
NextRead ==
    \/ Register /\ UNCHANGED sess
    \/ GetHeritageLineage
    \/ AnalyzeChainMetrics
    \/ GetChainSnapshot
    \/ DetectCircularDependencies

SpecRead == Init /\ [][NextRead]_vars

\* one caller at a time, registering nodes and contextualizing bids
NextBid ==
    \/ Register /\ UNCHANGED sess
    \/ ContextualizeBid

SpecBid == Init /\ [][NextBid]_vars

\* ------------------------------------------------------------ claim helpers
\* the declared parents of a registered node
DeclaredParents(n) == Range(nodes[n].parent_nodes)

\* the registered nodes reached from n by k or fewer declared-parent links (k >= 1)
RECURSIVE ReachedByParents(_, _)
ReachedByParents(n, k) ==
    IF k = 0 THEN {}
    ELSE LET near == ReachedByParents(n, k - 1)
         IN  (DeclaredParents(n) \cap DOMAIN nodes) \cup near \cup
             UNION {DeclaredParents(m) \cap DOMAIN nodes : m \in near}

\* the stored rows whose descendant is n, and those whose ancestor is n
RowsInto(n) == {r \in lineage : r.descendant_node_id = n}
RowsFrom(n) == {r \in lineage : r.ancestor_node_id = n}

\* the node a step registers, if any
Registers(n) == n \notin DOMAIN nodes /\ n \in DOMAIN nodes'

\* ------------------------------------------------------------------ claims

\* C1: in every reachable state the declared-parent relation over the
\* registered nodes is acyclic: no registered node reaches itself through one
\* or more declared-parent links.
C1_DeclaredParentsAcyclic ==
    \A n \in DOMAIN nodes : n \notin ReachedByParents(n, Cardinality(DOMAIN nodes))

\* C2: every registered node has depth 0 if it declares no parent, and
\* otherwise 1 + the maximum stored depth of its declared parents (a parent
\* without a stored node contributes nothing), so that its depth is strictly
\* greater than the stored depth of each of its parents.
C2_DepthFromParents ==
    \A n \in DOMAIN nodes :
        LET stored == {nodes[p].lathering_depth : p \in DeclaredParents(n) \cap DOMAIN nodes}
        IN  /\ nodes[n].lathering_depth =
                   IF nodes[n].parent_nodes = <<>> THEN 0 ELSE 1 + Max(stored \cup {0})
            /\ \A d \in stored : nodes[n].lathering_depth > d

\* C3 (as stated): no register call succeeds while one of its declared parents
\* has no stored node; such a call fails with ParentNotFoundError and persists
\* nothing.
C3_MissingParentRefused ==
    ~(/\ last.op = "register"
      /\ last.result = "ok"
      /\ \E p \in DeclaredParents(last.node_id) : p \notin DOMAIN nodes)

\* C3 (amended): a declared parent without a stored node never fails a
\* register call and never makes it wait.  No call ends in ParentNotFoundError;
\* a call for an unregistered node whose only declared parent is another
\* unregistered id, not recorded as its descendant, succeeds; and every
\* successful call stores depth 0 for an empty parent list and otherwise
\* 1 + the maximum stored depth of the declared parents that are registered
\* at the time of the call (1 if none is), with a row (p, n, 1) for every
\* declared parent p, registered or not.
C3_MissingParentAccepted ==
    /\ [](/\ last.result # "ParentNotFoundError"
          /\ \A n \in NodeIds \ DOMAIN nodes, p \in ParentIds \ DOMAIN nodes :
                (p # n /\ RowsFrom(n) \cap RowsInto(p) = {})
                    => register_outcome(n, <<p>>) = "ok")
    /\ [][\A n \in NodeIds :
            Registers(n) =>
                LET ps == nodes'[n].parent_nodes
                    stored == {nodes[p].lathering_depth : p \in Range(ps) \cap DOMAIN nodes}
                IN  /\ nodes'[n].lathering_depth =
                           IF ps = <<>> THEN 0 ELSE 1 + Max(stored \cup {0})
                    /\ \A p \in Range(ps) : HeritageLineage(p, n, 1) \in lineage']_vars

\* C3 witness: the last call succeeded with one declared parent registered and
\* another one absent from the node table.
C3_Witness ==
    /\ last.op = "register"
    /\ last.result = "ok"
    /\ \E p \in DeclaredParents(last.node_id), q \in DeclaredParents(last.node_id) :
          /\ p \notin DOMAIN nodes
          /\ q \in DOMAIN nodes
          /\ nodes[last.node_id].lathering_depth = nodes[q].lathering_depth + 1

\* C4: once a node_id is registered, every later register call with that id is
\* rejected with the duplicate-node error whatever its type, parents or
\* metadata, and the stored node record and the rows into it stay as the first
\* call wrote them.
C4_DuplicateRejected ==
    /\ [](\A n \in DOMAIN nodes, ps \in ParentLists :
              register_outcome(n, ps) = "DuplicateNodeError")
    /\ [][\A n \in DOMAIN nodes :
            /\ n \in DOMAIN nodes'
            /\ nodes'[n] = nodes[n]
            /\ {r \in lineage' : r.descendant_node_id = n} = RowsInto(n)
            /\ (last'.op = "register" /\ last'.node_id = n)
                   => last'.result = "DuplicateNodeError"]_vars

\* C4 witness: the last call named a registered id, was rejected as a
\* duplicate, and that node has parents and rows of its own.
C4_Witness ==
    /\ last.op = "register"
    /\ last.result = "DuplicateNodeError"
    /\ last.node_id \in DOMAIN nodes
    /\ nodes[last.node_id].parent_nodes # <<>>
    /\ RowsInto(last.node_id) # {}

\* C5 (as stated): in every reachable state a register call for x whose
\* parent list contains x fails with CircularDependencyError.
C5_SelfReferenceAlwaysCircular ==
    \A n \in NodeIds, ps \in ParentLists :
        n \in Range(ps) => register_outcome(n, ps) = "CircularDependencyError"

\* C5 (amended): with the cycle check enabled, a register call for x whose
\* parent list contains x is always rejected: with DuplicateNodeError when x is
\* registered already (the duplicate check comes first), with
\* CircularDependencyError otherwise; a call rejected with either error changes
\* neither table, and after a CircularDependencyError there is no node and no
\* row into x.
C5_SelfReferenceRejected ==
    /\ [](\A n \in NodeIds, ps \in ParentLists :
              n \in Range(ps) =>
                  register_outcome(n, ps) =
                      IF Exists(n) THEN "DuplicateNodeError" ELSE "CircularDependencyError")
    /\ [][/\ last'.result \in {"CircularDependencyError", "DuplicateNodeError"}
                 => UNCHANGED <<nodes, lineage>>
          /\ last'.result = "CircularDependencyError"
                 => /\ last'.node_id \notin DOMAIN nodes'
                    /\ {r \in lineage' : r.descendant_node_id = last'.node_id} = {}]_vars

\* C5 witness: a call was rejected with CircularDependencyError although no
\* stored row has its node as ancestor, so only its own id among its parents
\* explains the rejection; other nodes are registered.
C5_Witness ==
    /\ last.op = "register"
    /\ last.result = "CircularDependencyError"
    /\ RowsFrom(last.node_id) = {}
    /\ DOMAIN nodes # {}

\* C6 (as stated): both ends of every closure row are registered nodes.
C6_RowsReferenceNodes ==
    \A r \in lineage : /\ r.ancestor_node_id \in DOMAIN nodes
                       /\ r.descendant_node_id \in DOMAIN nodes

\* C6 (amended): the descendant of every closure row is a registered node; its
\* ancestor is an id that some registered node declares as a parent, which
\* need not be registered itself.
C6_RowEndsDeclared ==
    \A r \in lineage :
        /\ r.descendant_node_id \in DOMAIN nodes
        /\ \E m \in DOMAIN nodes : r.ancestor_node_id \in DeclaredParents(m)

\* C6 witness: a row at distance 2 whose ancestor is not registered.
C6_Witness ==
    \E r \in lineage : /\ r.ancestor_node_id \notin DOMAIN nodes
                       /\ r.depth_distance = 2

\* C7: the closure is transitive: rows (a, b, d1) and (b, c, d2) imply a row
\* (a, c, d) for some d.
C7_ClosureTransitive ==
    \A r1 \in lineage, r2 \in lineage :
        r1.descendant_node_id = r2.ancestor_node_id =>
            \E r \in lineage : /\ r.ancestor_node_id = r1.ancestor_node_id
                               /\ r.descendant_node_id = r2.descendant_node_id

\* C8: for every registered node n and every p in n.parent_nodes the row
\* (p, n, 1) is stored, from the registration on.
C8_DirectRows ==
    \A n \in DOMAIN nodes : \A p \in DeclaredParents(n) :
        HeritageLineage(p, n, 1) \in lineage

\* C8 witness: a registered node with two different declared parents.
C8_Witness ==
    \E n \in DOMAIN nodes : Cardinality(DeclaredParents(n)) = 2

\* C9: a registration propagates each parent's closure one level deeper: for
\* every declared parent p of the new node n and every row (a, p, d) stored
\* before, the row (a, n, d+1) is stored after.
C9_ClosurePropagated ==
    [][\A n \in NodeIds :
          Registers(n) =>
              \A p \in Range(nodes'[n].parent_nodes) : \A r \in RowsInto(p) :
                  HeritageLineage(r.ancestor_node_id, n, r.depth_distance + 1) \in lineage']_vars

\* C9 witness: the last call registered a node under two parents and it has
\* inherited a row at distance 2.
C9_Witness ==
    /\ last.op = "register"
    /\ last.result = "ok"
    /\ Cardinality(DeclaredParents(last.node_id)) = 2
    /\ \E r \in RowsInto(last.node_id) : r.depth_distance = 2

\* C10: the lineage table holds at most one row per ordered
\* (ancestor_node_id, descendant_node_id) pair.
C10_OneRowPerPair ==
    \A r1 \in lineage, r2 \in lineage : SamePair(r1, r2) => r1 = r2

\* C10 witness: a registration whose queued rows repeat a pair was refused by
\* the unique index, with rows stored already.
C10_Witness ==
    /\ last.op = "register"
    /\ last.result = "IntegrityError"
    /\ lineage # {}

\* C11: a rejected register call (duplicate id, cycle, depth limit, or a
\* unique-constraint failure) leaves the node table and the lineage table
\* exactly as they were.
C11_RejectedLeavesStores ==
    [][(last'.op = "register" /\ last'.result # "ok")
           => UNCHANGED <<nodes, lineage>>]_vars

\* C11 witness: the last call was rejected for exceeding the depth limit.
C11_Witness ==
    /\ last.op = "register"
    /\ last.result = "DepthLimitExceededError"
    /\ lineage # {}

\* C12: a call that violates several preconditions reports the first one in
\* the order duplicate id, cycle, depth limit; in particular a call for a
\* registered id with itself among its parents yields the duplicate error.
C12_FirstViolationWins ==
    /\ \A n \in NodeIds, ps \in ParentLists :
          LET outcome == register_outcome(n, ps)
          IN  /\ Exists(n) => outcome = "DuplicateNodeError"
              /\ (~Exists(n) /\ would_create_cycle(n, ps))
                     => outcome = "CircularDependencyError"
              /\ (~Exists(n) /\ ~would_create_cycle(n, ps)
                     /\ calculate_depth(ps) > MAX_CHAIN_DEPTH)
                     => outcome = "DepthLimitExceededError"
    /\ (last.op = "register" /\ last.self_ref)
           => last.result = IF Exists(last.node_id) THEN "DuplicateNodeError"
                            ELSE "CircularDependencyError"

\* C12 witness: the last call named a registered id with itself among its
\* parents and was rejected as a duplicate.
C12_Witness ==
    /\ last.op = "register"
    /\ last.self_ref
    /\ Exists(last.node_id)
    /\ last.result = "DuplicateNodeError"

\* C13: a call is rejected with the depth-limit error exactly when it passes
\* the duplicate and cycle checks and its computed depth exceeds
\* MAX_CHAIN_DEPTH; every stored node has depth <= MAX_CHAIN_DEPTH.
C13_DepthLimit ==
    /\ \A n \in NodeIds, ps \in ParentLists :
          register_outcome(n, ps) = "DepthLimitExceededError"
              <=> /\ ~Exists(n)
                  /\ ~would_create_cycle(n, ps)
                  /\ calculate_depth(ps) > MAX_CHAIN_DEPTH
    /\ \A n \in DOMAIN nodes : nodes[n].lathering_depth <= MAX_CHAIN_DEPTH

\* C13 witness: a node is stored at the maximum depth and the last call, one
\* level deeper, was rejected with the depth-limit error.
C13_Witness ==
    /\ last.op = "register"
    /\ last.result = "DepthLimitExceededError"
    /\ \E n \in DOMAIN nodes : nodes[n].lathering_depth = MAX_CHAIN_DEPTH


\* C14: of two concurrent register calls for one node_id exactly one commits,
\* and the other one, which passed the existence check before the winner
\* committed, ends with the duplicate-node error and not with a storage failure.
C14_RaceLoserSeesDuplicate ==
    \A s \in Sessions :
        (sess[s].pc = "done" /\ sess[s].node_id # 0 /\ Exists(sess[s].node_id)
             /\ sess[s].result # "ok")
            => sess[s].result = "DuplicateNodeError"

\* C15: registration is atomic for readers.  The step that makes a node
\* visible is the commit of the call that registers it and makes all the rows
\* that call queued visible with it, no row of an unregistered descendant is
\* visible, the rows of a visible node never change, and a reader whose node
\* query found the node sees, in its rows query, the row of every declared
\* parent.
C15_NodeWithAllRows ==
    /\ [](/\ \A r \in lineage : r.descendant_node_id \in DOMAIN nodes
          /\ last.op = "lineage_rows_query" =>
                 \A p \in DeclaredParents(last.node_id) :
                     HeritageLineage(p, last.node_id, 1) \in last.result)
    /\ [][\A n \in NodeIds :
              /\ Registers(n) =>
                     \E s \in Sessions :
                         /\ sess[s].pc = "queued"
                         /\ sess[s].node_id = n
                         /\ sess'[s].result = "ok"
                         /\ RowsInto(n)' = {e[3] : e \in sess[s].entries}
              /\ Exists(n) => RowsInto(n)' = RowsInto(n)]_vars

\* a reader got a node and its two rows from the call that registered it while
\* another call is between its flush and its commit
C15_Witness ==
    /\ last.op = "lineage_rows_query"
    /\ Cardinality(last.result) = 2
    /\ \E s \in Sessions : sess[s].result = "ok" /\ sess[s].node_id = last.node_id
    /\ \E t \in Sessions : sess[t].pc = "flushed"

\* C16: a register call for a node id nobody else has committed, whose declared
\* parent was committed when the call began, ends as it would running alone
\* on the committed tables, whatever other registrations run concurrently.
\* If the call alone succeeds it succeeds, and it writes the node at the
\* parent's depth plus one, the parent's direct row and one row per row of the
\* parent at one more than its distance, and nothing else; otherwise it fails
\* in the same way and writes nothing.
C16_SharedParentSerial ==
    [][\A s \in Sessions :
           (/\ InFlight(s)
            /\ sess'[s].pc = "done"
            /\ sess[s].parent_nodes # <<>>
            /\ sess[s].found = Range(sess[s].parent_nodes)
            /\ ~Exists(sess[s].node_id))
           => LET n == sess[s].node_id
                  p == sess[s].parent_nodes[1]
              IN  /\ sess'[s].result = register_outcome(n, sess[s].parent_nodes)
                  /\ IF sess'[s].result = "ok"
                     THEN /\ nodes' = [m \in DOMAIN nodes \cup {n} |->
                                          IF m = n
                                          THEN ContextualChainNode(SessionPayload(s), <<p>>,
                                                   nodes[p].lathering_depth + 1)
                                          ELSE nodes[m]]
                          /\ lineage' = lineage \cup {HeritageLineage(p, n, 1)} \cup
                                 {HeritageLineage(r.ancestor_node_id, n, r.depth_distance + 1) :
                                      r \in RowsInto(p)}
                     ELSE UNCHANGED <<nodes, lineage>>]_vars

\* both sessions have registered different nodes under one parent that was
\* committed when each call began; one of the calls committed while the other
\* one was in flight
C16_Witness ==
    \E s, t \in Sessions :
        /\ s # t
        /\ sess[s].result = "ok" /\ sess[t].result = "ok"
        /\ sess[s].node_id # sess[t].node_id
        /\ sess[s].found # {} /\ sess[s].found = sess[t].found
        /\ sess[t].raced
        /\ RowsInto(sess[s].node_id) # {} /\ RowsInto(sess[t].node_id) # {}

\* C17: no step updates or deletes a stored node or row: a registered node
\* keeps its record, the rows that lead into it stay the same set, no row is
\* ever removed, and get_heritage_lineage of it can return what it could
\* return before.
C17_NothingUpdatedOrDeleted ==
    [][\/ UNCHANGED <<nodes, lineage>>
       \/ /\ lineage \subseteq lineage'
          /\ \A n \in DOMAIN nodes :
                 /\ n \in DOMAIN nodes'
                 /\ nodes'[n] = nodes[n]
                 /\ RowsInto(n)' = RowsInto(n)
                 /\ get_heritage_lineage(n)' = get_heritage_lineage(n)]_vars

\* every id is registered, and the lineage of a node with ancestors was read
C17_Witness ==
    /\ DOMAIN nodes = NodeIds
    /\ last.op = "get_heritage_lineage"
    /\ RowsInto(last.node_id) # {}
    /\ RowsFrom(last.node_id) # {}

\* C18: get_heritage_lineage fails with the not-found error for an
\* unregistered id; for a registered one it returns each ancestor id of the
\* rows into the node once, an ancestor never after one that is farther away.
C18_LineageByDistance ==
    last.op = "get_heritage_lineage" =>
        IF ~Exists(last.node_id) THEN last.result = "ValueError"
        ELSE LET rows == RowsInto(last.node_id)
                 distance(a) ==
                     (CHOOSE r \in rows : r.ancestor_node_id = a).depth_distance
             IN  /\ Len(last.result) = Cardinality(rows)
                 /\ Range(last.result) = {r.ancestor_node_id : r \in rows}
                 /\ \A i, j \in DOMAIN last.result :
                        i < j => distance(last.result[i]) <= distance(last.result[j])

\* a lineage with ancestors at two distances was returned
C18_Witness ==
    /\ last.op = "get_heritage_lineage"
    /\ Exists(last.node_id)
    /\ \E r1, r2 \in RowsInto(last.node_id) : r1.depth_distance < r2.depth_distance
    /\ Len(last.result) >= 3

\* C19: get_chain_snapshot reports as max_depth the largest stored depth among
\* the root and the registered descendants of its rows, which is at least the
\* root's own depth.
C19_SnapshotMaxDepth ==
    (last.op = "get_chain_snapshot" /\ Exists(last.node_id)) =>
        /\ last.result.max_depth =
               Max({nodes[last.node_id].lathering_depth} \cup
                   {nodes[r.descendant_node_id].lathering_depth :
                        r \in {d \in RowsFrom(last.node_id) :
                                   d.descendant_node_id \in DOMAIN nodes}})
        /\ last.result.max_depth >= nodes[last.node_id].lathering_depth

\* C20: analyze_chain_metrics fails with the not-found error for an
\* unregistered id; for a registered one its counts are the numbers of rows
\* into and from the node, is_root tells whether the declared parent list is
\* empty and is_leaf whether no row leads from the node.
C20_MetricsAgree ==
    last.op = "analyze_chain_metrics" =>
        IF ~Exists(last.node_id) THEN last.result = "ValueError"
        ELSE /\ last.result.total_ancestors = Cardinality(RowsInto(last.node_id))
             /\ last.result.total_descendants = Cardinality(RowsFrom(last.node_id))
             /\ last.result.is_root = (nodes[last.node_id].parent_nodes = <<>>)
             /\ last.result.is_leaf = (RowsFrom(last.node_id) = {})
             /\ last.result.is_leaf = (last.result.total_descendants = 0)

\* the metrics of a node with ancestors, a child and a grandchild were returned
C20_Witness ==
    /\ last.op = "analyze_chain_metrics"
    /\ Exists(last.node_id)
    /\ last.result.total_ancestors >= 1
    /\ last.result.total_descendants >= 2
    /\ \E r \in RowsFrom(last.node_id) : r.depth_distance = 2

C22_ContextualizeSucceeds ==
    (/\ last.op = "contextualize_bid"
     /\ last.result \notin {"BidNotFound", "DuplicateNodeError"}
     /\ Range(last.parent_nodes) \cap DOMAIN nodes = {})
    => /\ http_status(last.result) = 201
       /\ Exists(last.node_id)
       /\ nodes[last.node_id].node_type = "bid"
       /\ nodes[last.node_id].parent_nodes = last.parent_nodes
       /\ \A p \in Range(last.parent_nodes) :
              HeritageLineage(p, last.node_id, 1) \in lineage

\* C23: a register call for a new node that passes the cycle check and the
\* depth limit, and two of whose declared parents have a common ancestor,
\* succeeds.
C23_FirstWriterWins ==
    \A n \in NodeIds, ps \in ParentLists :
        (/\ ~Exists(n)
         /\ ~would_create_cycle(n, ps)
         /\ calculate_depth(ps) <= MAX_CHAIN_DEPTH
         /\ \E p1, p2 \in Range(ps) :
                /\ p1 # p2
                /\ \E r1 \in RowsInto(p1), r2 \in RowsInto(p2) :
                       r1.ancestor_node_id = r2.ancestor_node_id)
        => register_outcome(n, ps) = "ok"

\* C24: the tree of a snapshot never holds a subtree marked cycle_detected.
C24_NoCycleMarker ==
    (last.op = "get_chain_snapshot" /\ Exists(last.node_id)) =>
        \A t \in last.result.node_tree : t.mark # "cycle_detected"

\* C25: detect_circular_dependencies returns false for every id, registered or
\* not.
C25_NoStoredNodeCircular ==
    /\ \A n \in NodeIds : detect_circular_dependencies(n) = FALSE
    /\ last.op = "detect_circular_dependencies" => last.result = FALSE

\* C26: total_nodes of a snapshot is the number of distinct node ids in its
\* tree.
C26_TotalNodesCountsTree ==
    (last.op = "get_chain_snapshot" /\ Exists(last.node_id)) =>
        last.result.total_nodes =
            Cardinality({t.path[Len(t.path)] : t \in last.result.node_tree})

\* C27 as claimed: the counts of node_type_distribution sum to total_ancestors.
RECURSIVE SumOver(_, _)
SumOver(f, keys) ==
    IF keys = {} THEN 0
    ELSE LET k == CHOOSE x \in keys : TRUE
         IN  f[k] + SumOver(f, keys \ {k})

HistogramTotal(metrics) ==
    SumOver(metrics.node_type_distribution, DOMAIN metrics.node_type_distribution)

C27_HistogramCountsAllAncestors ==
    (last.op = "analyze_chain_metrics" /\ Exists(last.node_id)) =>
        HistogramTotal(last.result) = last.result.total_ancestors

\* C27 amended: the counts of node_type_distribution sum to the number of
\* ancestors in the node's rows that are registered nodes, which is at most
\* total_ancestors and equal to it exactly when every such ancestor is
\* registered.
C27_HistogramCountsRegisteredAncestors ==
    (last.op = "analyze_chain_metrics" /\ Exists(last.node_id)) =>
        LET ancestors == {r.ancestor_node_id : r \in RowsInto(last.node_id)}
        IN  /\ HistogramTotal(last.result) = Cardinality(ancestors \cap DOMAIN nodes)
            /\ HistogramTotal(last.result) <= last.result.total_ancestors
            /\ (HistogramTotal(last.result) = last.result.total_ancestors)
                   <=> (ancestors \subseteq DOMAIN nodes)

\* metrics were returned for a node with a registered and an unregistered
\* ancestor
C27_Witness ==
    /\ last.op = "analyze_chain_metrics"
    /\ Exists(last.node_id)
    /\ last.result.total_ancestors = 2
    /\ HistogramTotal(last.result) = 1

\* C28: every stored row (a, n, d) has d >= 1, a chain of exactly d
\* declared-parent links leads from n to a, and d is at most the stored depth
\* of n.
RECURSIVE ParentChain(_, _, _)
ParentChain(n, a, d) ==
    IF d = 0 THEN n = a
    ELSE /\ Exists(n)
         /\ \E p \in DeclaredParents(n) : ParentChain(p, a, d - 1)

C28_RowsSound ==
    \A r \in lineage :
        /\ r.depth_distance >= 1
        /\ ParentChain(r.descendant_node_id, r.ancestor_node_id, r.depth_distance)
        /\ r.depth_distance <= nodes[r.descendant_node_id].lathering_depth

\* C29: the descendant of every stored row is a registered node, and the tree
\* of a snapshot of a registered root holds no subtree marked not_found.
C29_NoNotFoundMarker ==
    /\ \A r \in lineage : Exists(r.descendant_node_id)
    /\ \A n \in DOMAIN nodes :
           \A t \in build_node_tree(n, {}, <<>>) : t.mark # "not_found"
    /\ (last.op = "get_chain_snapshot" /\ Exists(last.node_id)) =>
           \A t \in last.result.node_tree : t.mark # "not_found"

\* a snapshot with a tree of three levels was returned
C29_Witness ==
    /\ last.op = "get_chain_snapshot"
    /\ Exists(last.node_id)
    /\ \E t \in last.result.node_tree : Len(t.path) = 3 /\ t.mark = "node"

\* C30: the tree construction of a snapshot finishes: it never nests deeper
\* than one call per registered node plus one, no call is nested deeper than
\* the interpreter allows, and no node id is expanded twice on one path.
C30_TreeTerminates ==
    (last.op = "get_chain_snapshot" /\ Exists(last.node_id)) =>
        \A t \in last.result.node_tree :
            /\ t.mark # "RecursionError"
            /\ Len(t.path) <= Cardinality(DOMAIN nodes) + 1
            /\ \A i, j \in DOMAIN t.path :
                   (i < j /\ t.path[i] = t.path[j]) =>
                       (j = Len(t.path) /\ t.mark = "cycle_detected")

\* a snapshot was returned whose distance-1 rows contain a cycle
C30_Witness ==
    /\ last.op = "get_chain_snapshot"
    /\ Exists(last.node_id)
    /\ \E t \in last.result.node_tree : t.mark = "cycle_detected"

====
